---- MODULE Spec2Model ----
(***************************************************************************)
(* Retrieval re-ranking, reference integrity and structured-output repair  *)
(* of the exam-question generator (src/app.py, src/rag_app.py).            *)
(*                                                                         *)
(* Texts are sequences of symbols.  Korean literals of the source are      *)
(* written with ASCII stand-ins:                                           *)
(*   "REF:"            the label of the references line (rag_app.py:174)   *)
(*   "(none)"          the placeholder written after the label             *)
(*   "ShortAnswer"     the short-answer question type  (app.py:334)        *)
(*   "MultipleChoice"  the multiple-choice question type (app.py:289)      *)
(*   "OX"              the true/false question type (app.py:290)           *)
(*   "ERR_ANSWER"      the short-answer placeholder answer (app.py:368)    *)
(*   "ANSWER_GEN_ERROR" the overwritten letter answer (app.py:340)         *)
(***************************************************************************)
EXTENDS Integers, Sequences, FiniteSets, TLC

VARIABLES
    \* ---- reference integrity filter (rag_app.py:161-175)
    text,          \* the generated text handed to clean_hallucinated_references
    valid_count,   \* max_doc_count
    cleaned,       \* clean(text, valid_count)
    recleaned,     \* clean(cleaned, valid_count)
    pc_clean,      \* "input" | "cleaned" | "recleaned" | "off"
    \* ---- search tool and shared context (app.py:33-104, rag_app.py:17-96)
    resp,          \* what client.retrieve does: raises, or answers retrievalResults
    docs,          \* get_shared_context().docs
    ret,           \* what search_knowledge_base returned
    pc_search,     \* "ready" | "done" | "off"
    \* ---- generation request (app.py:275-356) and its rendering (app.py:876-880)
    request,       \* the arguments of rag_answer_chain
    clock,         \* int(time.time() * 1000)
    final_raw,     \* what the editor agent answered
    js,            \* the question set rag_answer_chain returned
    outcome,       \* "idle" | "pending" | "returned" | "raised"
    rendered,      \* "pending" | "ok" | "crash"
    \* ---- placeholder questions (app.py:359-380)
    repair_args,   \* the arguments of create_error_question
    repaired,      \* what create_error_question returned
    pc_repair,     \* "ready" | "done" | "off"
    \* ---- generation requests of the sessions of one process (app.py:38-40, 275-356)
    sess,          \* per session: where its request is and what it stored and got
    issued,        \* the ids of the batches returned so far, one entry per batch
    \* ---- short-answer verification (app.py:191-270)
    user_answer,   \* the submitted text
    correct_answer,\* the canonical answer
    verdict,       \* check_short_answer(user_answer, correct_answer)
    verdict_swapped, \* check_short_answer(correct_answer, user_answer)
    pc_verify,     \* "ready" | "checked" | "both" | "off"
    \* ---- the learner's session state (app.py:385-432, 706-723, 1015-1021)
    quiz,          \* the batch in st.session_state.quiz_data, 0 for None
    selected,      \* the sel_keys of st.session_state that hold an answer
    answer_history,     \* st.session_state.answer_history
    answered_questions, \* st.session_state.answered_questions
    bookmarks,     \* st.session_state.bookmarks
    bookmark_data  \* st.session_state.bookmark_data, in insertion order

cleanVars == <<text, valid_count, cleaned, recleaned, pc_clean>>
searchVars == <<resp, docs, ret, pc_search>>
genVars == <<request, clock, final_raw, js, outcome, rendered>>
repairVars == <<repair_args, repaired, pc_repair>>
sessVars == <<sess, issued>>
verifyVars == <<user_answer, correct_answer, verdict, verdict_swapped, pc_verify>>
learnerVars == <<quiz, selected, answer_history, answered_questions, bookmarks,
                 bookmark_data>>
vars == <<cleanVars, searchVars, genVars, repairVars, sessVars, verifyVars,
          learnerVars>>

-----------------------------------------------------------------------------
(* Bounds of the model *)

MaxSegments == 4
MaxDocs == 1
MaxResults == 4
MaxRawLen == 3
MaxQuestions == 1
RequestedQuestions == 2
MaxCount == 3

-----------------------------------------------------------------------------
(* Generic helpers *)

SeqsUpTo(S, n) == UNION {[1..k -> S] : k \in 0..n}

RECURSIVE Flatten(_)
Flatten(ss) == IF ss = <<>> THEN <<>> ELSE Head(ss) \o Flatten(Tail(ss))

-----------------------------------------------------------------------------
(* The sessions of the process and the values of the parts not in use      *)

\* the browser sessions served by the one Streamlit process
Sessions == {1, 2}

\* a session that has issued no generation request
IdleSession ==
    [pc |-> "idle", requests |-> 0, started_at |-> 0, retrievals |-> 0,
     stored |-> <<>>, last_failed |-> FALSE, alone |-> TRUE,
     returned |-> FALSE, contexts |-> <<>>]

\* check_short_answer has not been called
NoVerdict == [is_correct |-> FALSE, match_type |-> "none"]

-----------------------------------------------------------------------------
(* Reference integrity filter: regular-expression substitutions            *)

Digits == {"0", "1", "3"}
Whitespace == {" ", "NL"}          \* what \s matches among the symbols
CommaSpace == {",", " "}           \* the class [, ]

DigitValue(d) == CASE d = "0" -> 0 [] d = "1" -> 1 [] d = "3" -> 3

\* int(match.group(1)) of a run of digits
RECURSIVE IntOf(_)
IntOf(ds) ==
    IF ds = <<>> THEN 0
    ELSE 10 * IntOf(SubSeq(ds, 1, Len(ds) - 1)) + DigitValue(ds[Len(ds)])

\* number of consecutive symbols of class S in t from position i on (greedy X*)
RECURSIVE Span(_, _, _)
Span(t, i, S) ==
    IF i <= Len(t) /\ t[i] \in S THEN 1 + Span(t, i + 1, S) ELSE 0

\* length of the match of \[ID:\s*(\d+)\] at position i, 0 when it does not match
IdMatchLen(t, i) ==
    IF i + 1 <= Len(t) /\ t[i] = "[" /\ t[i + 1] = "ID:"
    THEN LET ws == Span(t, i + 2, Whitespace)
             ds == Span(t, i + 2 + ws, Digits)
             close == i + 2 + ws + ds
         IN IF ds > 0 /\ close <= Len(t) /\ t[close] = "]"
            THEN 3 + ws + ds ELSE 0
    ELSE 0

IdMatchDigits(t, i) ==
    LET ws == Span(t, i + 2, Whitespace)
        ds == Span(t, i + 2 + ws, Digits)
    IN SubSeq(t, i + 2 + ws, i + 1 + ws + ds)

\* length of the match of \[(\d+)\] at position i, 0 when it does not match
MarkerMatchLen(t, i) ==
    IF i <= Len(t) /\ t[i] = "["
    THEN LET ds == Span(t, i + 1, Digits)
             close == i + 1 + ds
         IN IF ds > 0 /\ close <= Len(t) /\ t[close] = "]" THEN 2 + ds ELSE 0
    ELSE 0

MarkerDigits(t, i) == SubSeq(t, i + 1, i + Span(t, i + 1, Digits))

\* re.sub(r'\[ID:\s*(\d+)\]', r'[\1]', t): leftmost, non-overlapping, one pass
RECURSIVE NormalizeFrom(_, _)
NormalizeFrom(t, i) ==
    IF i > Len(t) THEN <<>>
    ELSE LET m == IdMatchLen(t, i)
         IN IF m > 0
            THEN <<"[">> \o IdMatchDigits(t, i) \o <<"]">> \o NormalizeFrom(t, i + m)
            ELSE <<t[i]>> \o NormalizeFrom(t, i + 1)

normalize_references(t) == NormalizeFrom(t, 1)

\* validator(match): "" when the number exceeds max_doc_count, else the match
validator(ds, max_doc_count) ==
    IF IntOf(ds) > max_doc_count THEN <<>> ELSE <<"[">> \o ds \o <<"]">>

\* re.sub(r'\[(\d+)\]', validator, t)
RECURSIVE ValidateFrom(_, _, _)
ValidateFrom(t, i, max_doc_count) ==
    IF i > Len(t) THEN <<>>
    ELSE LET m == MarkerMatchLen(t, i)
         IN IF m > 0
            THEN validator(MarkerDigits(t, i), max_doc_count)
                 \o ValidateFrom(t, i + m, max_doc_count)
            ELSE <<t[i]>> \o ValidateFrom(t, i + 1, max_doc_count)

\* $ under re.MULTILINE: at the end of the text or just before a newline
AtLineEnd(t, p) == p = Len(t) + 1 \/ (p <= Len(t) /\ t[p] = "NL")

\* length of the match of REF:\s*[, ]*$ at position i, 0 when it does not
\* match.  Both stars are greedy and backtrack: the first success in the
\* order (most whitespace first, then most of [, ] first) is the match.
RefMatchLen(t, i) ==
    IF i <= Len(t) /\ t[i] = "REF:"
    THEN LET wsMax == Span(t, i + 1, Whitespace)
             Ok(k, l) == AtLineEnd(t, i + 1 + k + l)
             Ls(k) == {l \in 0..Span(t, i + 1 + k, CommaSpace) : Ok(k, l)}
             Ks == {k \in 0..wsMax : Ls(k) # {}}
         IN IF Ks = {} THEN 0
            ELSE LET k == CHOOSE x \in Ks : \A y \in Ks : y <= x
                     l == CHOOSE x \in Ls(k) : \A y \in Ls(k) : y <= x
                 IN 1 + k + l
    ELSE 0

\* re.sub(r'REF:\s*[, ]*$', 'REF: (none)', t, flags=re.MULTILINE)
RECURSIVE RefLineFrom(_, _)
RefLineFrom(t, i) ==
    IF i > Len(t) THEN <<>>
    ELSE LET m == RefMatchLen(t, i)
         IN IF m > 0
            THEN <<"REF:", " ", "(none)">> \o RefLineFrom(t, i + m)
            ELSE <<t[i]>> \o RefLineFrom(t, i + 1)

clean_hallucinated_references(t, max_doc_count) ==
    LET normalized_text == normalize_references(t)
        marked == ValidateFrom(normalized_text, 1, max_doc_count)
    IN RefLineFrom(marked, 1)

-----------------------------------------------------------------------------
(* Inputs of the filter: every text of at most MaxSegments segments, a      *)
(* segment being one symbol or one complete marker.                         *)

Segments ==
    {<<s>> : s \in {"[", "]", "ID:", " ", ",", "NL", "REF:"} \cup Digits}
    \cup {<<"[", d, "]">> : d \in Digits}

Texts == {Flatten(ss) : ss \in SeqsUpTo(Segments, MaxSegments)}

InitClean ==
    /\ text \in Texts
    /\ valid_count \in 0..MaxDocs
    /\ cleaned = <<>>
    /\ recleaned = <<>>
    /\ pc_clean = "input"
    \* the search tool is not in use
    /\ resp = [raises |-> FALSE, retrievalResults |-> <<>>]
    /\ docs = <<>>
    /\ ret = [kind |-> "none", entries |-> <<>>]
    /\ pc_search = "off"
    \* no generation request is in progress
    /\ request = [question |-> "", num_questions |-> 0, difficulty |-> "",
                  question_type |-> ""]
    /\ clock = 0
    /\ final_raw = [text |-> <<>>, questions |-> [is_list |-> TRUE, items |-> <<>>]]
    /\ js = [questions_key |-> FALSE, other_keys |-> FALSE, questions |-> <<>>]
    /\ outcome = "idle"
    /\ rendered = "pending"
    \* create_error_question is not being called
    /\ repair_args = [topic |-> "", difficulty |-> "", question_type |-> "",
                      num_questions |-> 0, unique_id |-> 0]
    /\ repaired = <<>>
    /\ pc_repair = "off"
    /\ sess = [s \in Sessions |-> IdleSession]
    /\ issued = <<>>
    /\ user_answer = <<>>
    /\ correct_answer = <<>>
    /\ verdict = NoVerdict
    /\ verdict_swapped = NoVerdict
    /\ pc_verify = "off"
    /\ quiz = 0
    /\ selected = <<>>
    /\ answer_history = <<>>
    /\ answered_questions = <<>>
    /\ bookmarks = <<>>
    /\ bookmark_data = <<>>

Clean ==
    /\ pc_clean = "input"
    /\ cleaned' = clean_hallucinated_references(text, valid_count)
    /\ pc_clean' = "cleaned"
    /\ UNCHANGED <<text, valid_count, recleaned, searchVars, genVars, repairVars, sessVars, verifyVars, learnerVars>>

CleanAgain ==
    /\ pc_clean = "cleaned"
    /\ recleaned' = clean_hallucinated_references(cleaned, valid_count)
    /\ pc_clean' = "recleaned"
    /\ UNCHANGED <<text, valid_count, cleaned, searchVars, genVars, repairVars, sessVars, verifyVars, learnerVars>>

NextClean == Clean \/ CleanAgain


-----------------------------------------------------------------------------
(* Search tool: threshold filter, grouping by source, weighted score, sort  *)

\* Scores are in hundredths (60 is 0.60); computed scores are exact
\* fractions [num, den] with den > 0, so that no rounding decides an order.
ThresholdPct == 60

Rat(n, d) == [num |-> n, den |-> d]
RatOfInt(n) == Rat(n, 1)
RatAdd(a, b) == Rat(a.num * b.den + b.num * a.den, a.den * b.den)
RatMul(a, b) == Rat(a.num * b.num, a.den * b.den)
RatDiv(a, n) == Rat(a.num, a.den * n)
RatLess(a, b) == a.num * b.den < b.num * a.den
RatEq(a, b) == a.num * b.den = b.num * a.den

Bonus == Rat(1, 4)                 \* the 0.25 of app.py:84

RECURSIVE SumSeq(_)
SumSeq(s) == IF s = <<>> THEN 0 ELSE Head(s) + SumSeq(Tail(s))

\* the comparison turned round: drops what is above the threshold
KeepsScoreInverted(score) == ~(score > ThresholdPct)

\* for r in resp.get("retrievalResults", []): if score < 0.60: continue
KeepsScore(score) == ~(score < ThresholdPct)

RECURSIVE Chunks(_, _)
Chunks(rs, i) ==
    IF i > Len(rs) THEN <<>>
    ELSE IF KeepsScore(rs[i].score)
         THEN <<[text |-> i, source |-> rs[i].source, score |-> rs[i].score]>>
              \o Chunks(rs, i + 1)
         ELSE Chunks(rs, i + 1)

\* grouped[c["source"]]: a dict keeps its keys in insertion order
IndexOfSource(groups, src) ==
    IF \E k \in 1..Len(groups) : groups[k].source = src
    THEN CHOOSE k \in 1..Len(groups) : groups[k].source = src
    ELSE 0

\* the texts of a group kept latest first
AddChunkLatestFirst(groups, c) ==
    LET k == IndexOfSource(groups, c.source)
    IN IF k = 0
       THEN Append(groups, [source |-> c.source, texts |-> <<c.text>>,
                            scores |-> <<c.score>>])
       ELSE [groups EXCEPT ![k].texts = <<c.text>> \o @,
                           ![k].scores = Append(@, c.score)]

AddChunk(groups, c) ==
    LET k == IndexOfSource(groups, c.source)
    IN IF k = 0
       THEN Append(groups, [source |-> c.source, texts |-> <<c.text>>,
                            scores |-> <<c.score>>])
       ELSE [groups EXCEPT ![k].texts = Append(@, c.text),
                           ![k].scores = Append(@, c.score)]

RECURSIVE Grouped(_, _)
Grouped(chunks, groups) ==
    IF chunks = <<>> THEN groups
    ELSE Grouped(Tail(chunks), AddChunk(groups, Head(chunks)))

\* the weighted score capped at 1.0
WeightedScoreCapped(scores) ==
    LET avg == RatDiv(RatOfInt(SumSeq(scores)), Len(scores))
        w == RatMul(avg, RatAdd(RatOfInt(1), RatMul(RatOfInt(Len(scores) - 1), Bonus)))
    IN IF RatLess(RatOfInt(100), w) THEN RatOfInt(100) ELSE w

\* avg = sum(scores) / len(scores); w = avg * (1 + (len(scores) - 1) * 0.25)
WeightedScore(scores) ==
    LET avg == RatDiv(RatOfInt(SumSeq(scores)), Len(scores))
    IN RatMul(avg, RatAdd(RatOfInt(1), RatMul(RatOfInt(Len(scores) - 1), Bonus)))

Merged(groups) ==
    [k \in 1..Len(groups) |->
        [source |-> groups[k].source,
         score |-> WeightedScore(groups[k].scores),
         text |-> groups[k].texts]]      \* "\n".join(texts), texts in order

\* an unstable order: of two equal scores the later document goes first
ComesBeforeOnTie(a, b) == ~RatLess(a.score, b.score)

\* sorted(merged, key=score, reverse=True): stable, equal scores keep their order
ComesBefore(a, b) == RatLess(b.score, a.score)

RECURSIVE InsertSorted(_, _)
InsertSorted(sorted, d) ==
    IF sorted = <<>> THEN <<d>>
    ELSE IF ComesBefore(d, Head(sorted))
         THEN <<d>> \o sorted
         ELSE <<Head(sorted)>> \o InsertSorted(Tail(sorted), d)

RECURSIVE SortedDocs(_, _)
SortedDocs(merged, acc) ==
    IF merged = <<>> THEN acc
    ELSE SortedDocs(Tail(merged), InsertSorted(acc, Head(merged)))

MergeAndRank(rs) == SortedDocs(Merged(Grouped(Chunks(rs, 1), <<>>)), <<>>)

\* the tool's answer: the no-results message, or the numbered document list
\* "[ID: i+1] file: source" for i, doc in enumerate(sorted_docs)
FormatResult(sorted_docs) ==
    IF sorted_docs = <<>> THEN [kind |-> "no_results", entries |-> <<>>]
    ELSE [kind |-> "documents",
          entries |-> [i \in 1..Len(sorted_docs) |->
                          [id |-> i, source |-> sorted_docs[i].source]]]

Sources == {"a.pdf", "b.pdf", "c.pdf"}
Scores == {50, 60, 75}
RawResults == [source : Sources, score : Scores]
RetrievalResults == SeqsUpTo(RawResults, MaxResults)

\* what an earlier search of the process left in the shared context
StaleDocs == MergeAndRank(<<[source |-> "a.pdf", score |-> 75]>>)
NoReturn == [kind |-> "none", entries |-> <<>>]

RetrieverRaises == [raises |-> TRUE, retrievalResults |-> <<>>]
RetrieverAnswers(rs) == [raises |-> FALSE, retrievalResults |-> rs]

InitSearch ==
    /\ resp \in {RetrieverAnswers(rs) : rs \in RetrievalResults} \cup {RetrieverRaises}
    /\ docs \in {<<>>, StaleDocs}
    /\ ret = NoReturn
    /\ pc_search = "ready"
    \* the reference filter is not in use
    /\ text = <<>>
    /\ valid_count = 0
    /\ cleaned = <<>>
    /\ recleaned = <<>>
    /\ pc_clean = "off"
    \* no generation request is in progress
    /\ request = [question |-> "", num_questions |-> 0, difficulty |-> "",
                  question_type |-> ""]
    /\ clock = 0
    /\ final_raw = [text |-> <<>>, questions |-> [is_list |-> TRUE, items |-> <<>>]]
    /\ js = [questions_key |-> FALSE, other_keys |-> FALSE, questions |-> <<>>]
    /\ outcome = "idle"
    /\ rendered = "pending"
    \* create_error_question is not being called
    /\ repair_args = [topic |-> "", difficulty |-> "", question_type |-> "",
                      num_questions |-> 0, unique_id |-> 0]
    /\ repaired = <<>>
    /\ pc_repair = "off"
    /\ sess = [s \in Sessions |-> IdleSession]
    /\ issued = <<>>
    /\ user_answer = <<>>
    /\ correct_answer = <<>>
    /\ verdict = NoVerdict
    /\ verdict_swapped = NoVerdict
    /\ pc_verify = "off"
    /\ quiz = 0
    /\ selected = <<>>
    /\ answer_history = <<>>
    /\ answered_questions = <<>>
    /\ bookmarks = <<>>
    /\ bookmark_data = <<>>

\* search_knowledge_base when client.retrieve answers
Search ==
    /\ pc_search = "ready"
    /\ ~resp.raises
    /\ LET sorted_docs == MergeAndRank(resp.retrievalResults)
       IN /\ docs' = sorted_docs
          /\ ret' = FormatResult(sorted_docs)
    /\ pc_search' = "done"
    /\ UNCHANGED <<resp, cleanVars, genVars, repairVars, sessVars, verifyVars, learnerVars>>

\* search_knowledge_base when client.retrieve raises: except Exception
SearchFails ==
    /\ pc_search = "ready"
    /\ resp.raises
    /\ ret' = [kind |-> "error", entries |-> <<>>]
    /\ pc_search' = "done"
    /\ UNCHANGED <<resp, docs, cleanVars, genVars, repairVars, sessVars, verifyVars, learnerVars>>

NextSearch == Search \/ SearchFails

-----------------------------------------------------------------------------
(* Structured output: extraction, placeholder questions, normalisation     *)

Letters == {"A", "B", "C", "D"}
QuestionTypes == {"MultipleChoice", "OX", "ShortAnswer"}
Difficulties == {"Easy", "Normal", "Hard"}

\* a dict-valued field: missing, or a dict with the given keys
NoDict == [present |-> FALSE, keys |-> {}]
DictOf(keys) == [present |-> TRUE, keys |-> keys]

\* re.sub(r'^#+\s*', '', t, flags=re.MULTILINE)
AtLineStart(t, i) == i = 1 \/ t[i - 1] = "NL"

RECURSIVE RemoveHeadersFrom(_, _)
RemoveHeadersFrom(t, i) ==
    IF i > Len(t) THEN <<>>
    ELSE LET hs == IF AtLineStart(t, i) THEN Span(t, i, {"#"}) ELSE 0
         IN IF hs > 0
            THEN RemoveHeadersFrom(t, i + hs + Span(t, i + hs, Whitespace))
            ELSE <<t[i]>> \o RemoveHeadersFrom(t, i + 1)

remove_markdown_headers(t) == RemoveHeadersFrom(t, 1)

\* text.find("{") and text.rfind("}") as 1-based positions, 0 for -1
Find(t, c) ==
    IF \E i \in 1..Len(t) : t[i] = c
    THEN CHOOSE i \in 1..Len(t) : t[i] = c /\ \A j \in 1..(i - 1) : t[j] # c
    ELSE 0

RFind(t, c) ==
    IF \E i \in 1..Len(t) : t[i] = c
    THEN CHOOSE i \in 1..Len(t) : t[i] = c /\ \A j \in (i + 1)..Len(t) : t[j] # c
    ELSE 0

\* json.loads of a span of symbols: an object is "{", members, "}"; the
\* member "Q" is "questions": <payload>, the member "K" is any other key.
\* Anything else raises.
None == [ok |-> FALSE, questions_key |-> FALSE, other_keys |-> FALSE]
Members == {"Q", "K"}

json_loads(span) ==
    IF /\ Len(span) >= 2
       /\ span[1] = "{"
       /\ span[Len(span)] = "}"
       /\ \A i \in 2..(Len(span) - 1) : span[i] \in Members
    THEN [ok |-> TRUE,
          questions_key |-> \E i \in 2..(Len(span) - 1) : span[i] = "Q",
          other_keys |-> \E i \in 2..(Len(span) - 1) : span[i] = "K"]
    ELSE None

\* try: s = find, e = rfind; None when either is -1; json.loads(text[s:e+1])
\* except: None
extract_json(t) ==
    LET s == Find(t, "{")
        e == RFind(t, "}")
    IN IF s = 0 \/ e = 0 THEN None ELSE json_loads(SubSeq(t, s, e))

\* range(1, num_questions + 1) written as range(1, num_questions)
create_error_question_short(topic, difficulty, question_type, num_questions, unique_id) ==
    [i \in 1..(num_questions - 1) |->
        [number |-> <<unique_id, i>>,
         display_number |-> i,
         question |-> <<"GENERATION_ERROR", i, num_questions>>,
         options |-> IF question_type = "ShortAnswer" THEN DictOf({}) ELSE DictOf(Letters),
         answer |-> IF question_type = "ShortAnswer" THEN "ERR_ANSWER" ELSE "A",
         difficulty |-> difficulty,
         topic |-> topic,
         type |-> question_type,
         explanation |-> [kind |-> "dict", correct |-> "JSON_PARSE_ERROR",
                          wrong |-> IF question_type = "ShortAnswer"
                                    THEN DictOf({}) ELSE DictOf(Letters)],
         related_concepts |-> <<>>]]

create_error_question(topic, difficulty, question_type, num_questions, unique_id) ==
    [i \in 1..num_questions |->
        [number |-> <<unique_id, i>>,                 \* f"{unique_id}_{i}"
         display_number |-> i,
         question |-> <<"GENERATION_ERROR", i, num_questions>>,
         options |-> IF question_type = "ShortAnswer" THEN DictOf({}) ELSE DictOf(Letters),
         answer |-> IF question_type = "ShortAnswer" THEN "ERR_ANSWER" ELSE "A",
         difficulty |-> difficulty,
         topic |-> topic,
         type |-> question_type,
         explanation |-> [kind |-> "dict", correct |-> "JSON_PARSE_ERROR",
                          wrong |-> IF question_type = "ShortAnswer"
                                    THEN DictOf({}) ELSE DictOf(Letters)],
         related_concepts |-> <<>>]]

\* what the editor can put in an element of "questions"
RawOptions == {NoDict, DictOf({}), DictOf({"A", "B"}), DictOf(Letters)}
RawAnswers == {"ABSENT", "A", "a", "S3"}
ExplanationAbsent == [kind |-> "absent", correct |-> "", wrong |-> NoDict]
ExplanationText == [kind |-> "nondict", correct |-> "", wrong |-> NoDict]
ExplanationDict == [kind |-> "dict", correct |-> "why", wrong |-> DictOf(Letters)]
RawExplanations == {ExplanationAbsent, ExplanationText, ExplanationDict}

NotAnObject ==
    [is_object |-> FALSE, question |-> <<>>, options |-> NoDict,
     answer |-> "ABSENT", explanation |-> ExplanationAbsent]

RawItems ==
    [is_object : {TRUE}, question : {<<"text">>}, options : RawOptions,
     answer : RawAnswers, explanation : RawExplanations]
    \cup {NotAnObject}

NotAList == [is_list |-> FALSE, items |-> <<>>]
Payloads ==
    {[is_list |-> TRUE, items |-> qs] : qs \in SeqsUpTo(RawItems, MaxQuestions)}
    \cup {NotAList}

\* str.upper() on the answers above
Upper(a) == IF a = "a" THEN "A" ELSE a

\* q.get("answer", "")
AnswerOrEmpty(q) == IF q.answer = "ABSENT" THEN "" ELSE q.answer

\* the statements of the loop body that raise: item assignment on an element
\* that is no dict (q["difficulty"] = ...) or on an explanation that is no
\* dict (q["explanation"]["wrong"] = {})
ItemRaises(q, question_type) ==
    \/ ~q.is_object
    \/ (question_type = "ShortAnswer" /\ q.explanation.kind = "nondict")

NormalizedOptions(q, question_type) ==
    IF question_type = "ShortAnswer"
    THEN IF ~q.options.present \/ q.options.keys # {} THEN DictOf({}) ELSE q.options
    ELSE IF ~q.options.present \/ q.options.keys = {} THEN DictOf(Letters) ELSE q.options

\* the letter check left out
AnswerUnchecked(q, question_type) == q.answer

NormalizedAnswer(q, question_type) ==
    IF question_type = "ShortAnswer" /\ Upper(AnswerOrEmpty(q)) \in Letters
    THEN "ANSWER_GEN_ERROR"
    ELSE q.answer

NormalizedExplanation(q, question_type) ==
    IF q.explanation.kind = "absent"
    THEN [kind |-> "dict", correct |-> "", wrong |-> DictOf({})]
    ELSE IF question_type = "ShortAnswer"
         THEN [q.explanation EXCEPT !.wrong = DictOf({})]
         ELSE q.explanation

\* the body of: for idx, q in enumerate(js.get("questions", []), 1)
NormalizedQuestion(q, idx, req, unique_id) ==
    [number |-> <<unique_id, idx>>,
     display_number |-> idx,
     question |-> q.question,
     options |-> NormalizedOptions(q, req.question_type),
     answer |-> NormalizedAnswer(q, req.question_type),
     difficulty |-> req.difficulty,
     topic |-> req.question,
     type |-> req.question_type,
     explanation |-> NormalizedExplanation(q, req.question_type),
     related_concepts |-> <<>>]

Raised == [raised |-> TRUE,
           js |-> [questions_key |-> FALSE, other_keys |-> FALSE, questions |-> <<>>]]
Returned(v) == [raised |-> FALSE, js |-> v]

\* rag_answer_chain from the editor's answer on (app.py:311-356)
rag_answer_chain(req, out, unique_id) ==
    LET txt == normalize_references(remove_markdown_headers(out.text))
        parsed == extract_json(txt)
    IN IF ~parsed.ok
       THEN Returned([questions_key |-> TRUE, other_keys |-> FALSE,
                      questions |-> create_error_question(req.question, req.difficulty,
                                       req.question_type, req.num_questions, unique_id)])
       ELSE IF ~parsed.questions_key
       THEN Returned([questions_key |-> FALSE, other_keys |-> parsed.other_keys,
                      questions |-> <<>>])
       ELSE IF ~out.questions.is_list
       THEN Raised
       ELSE IF \E i \in 1..Len(out.questions.items) :
                  ItemRaises(out.questions.items[i], req.question_type)
       THEN Raised
       ELSE Returned([questions_key |-> TRUE, other_keys |-> parsed.other_keys,
                      questions |-> [i \in 1..Len(out.questions.items) |->
                          NormalizedQuestion(out.questions.items[i], i, req, unique_id)]])

\* the first rendering of the returned batch (app.py:876-880, 514-523)
RenderOutcome(v) ==
    IF ~(v.questions_key \/ v.other_keys) THEN "nothing"      \* if quiz_data: is false
    ELSE IF ~v.questions_key THEN "crash"                     \* quiz_data["questions"]
    ELSE IF \E i \in 1..Len(v.questions) : v.questions[i].answer = "ABSENT"
         THEN "crash"                                         \* question_data["answer"]
         ELSE "ok"

\* the editor's answers: a text over the symbols, and the value of its
\* "questions" member when the text has one
RawTexts == SeqsUpTo({"{", "}", "Q", "K", "x"}, MaxRawLen)
NoPayload == [is_list |-> TRUE, items |-> <<>>]
PayloadsFor(t) ==
    IF extract_json(normalize_references(remove_markdown_headers(t))).questions_key
    THEN Payloads ELSE {NoPayload}
GeneratorOutputs ==
    UNION {{[text |-> t, questions |-> p] : p \in PayloadsFor(t)} : t \in RawTexts}

\* what the drafter's use of the search tool retrieved (nothing when unused)
DrafterRetrievals == {<<>>, <<[source |-> "a.pdf", score |-> 75]>>}

InitGen ==
    /\ request \in [question : {"S3"}, num_questions : {RequestedQuestions},
                    difficulty : {"Normal"}, question_type : QuestionTypes]
    /\ clock = 1
    /\ final_raw = [text |-> <<>>, questions |-> NoPayload]
    /\ js = [questions_key |-> FALSE, other_keys |-> FALSE, questions |-> <<>>]
    /\ outcome = "pending"
    /\ rendered = "pending"
    /\ docs \in {<<>>, StaleDocs}
    /\ resp = [raises |-> FALSE, retrievalResults |-> <<>>]
    /\ ret = [kind |-> "none", entries |-> <<>>]
    /\ pc_search = "off"
    /\ text = <<>>
    /\ valid_count = 0
    /\ cleaned = <<>>
    /\ recleaned = <<>>
    /\ pc_clean = "off"
    /\ repair_args = [topic |-> "", difficulty |-> "", question_type |-> "",
                      num_questions |-> 0, unique_id |-> 0]
    /\ repaired = <<>>
    /\ pc_repair = "off"
    /\ sess = [s \in Sessions |-> IdleSession]
    /\ issued = <<>>
    /\ user_answer = <<>>
    /\ correct_answer = <<>>
    /\ verdict = NoVerdict
    /\ verdict_swapped = NoVerdict
    /\ pc_verify = "off"
    /\ quiz = 0
    /\ selected = <<>>
    /\ answer_history = <<>>
    /\ answered_questions = <<>>
    /\ bookmarks = <<>>
    /\ bookmark_data = <<>>

\* rag_answer_chain: ctx.docs = [], the agents, extraction, normalisation
RagAnswerChain ==
    /\ outcome = "pending"
    /\ \E out \in GeneratorOutputs, rs \in DrafterRetrievals :
          LET r == rag_answer_chain(request, out, clock)
          IN /\ final_raw' = out
             /\ docs' = MergeAndRank(rs)
             /\ js' = r.js
             /\ outcome' = IF r.raised THEN "raised" ELSE "returned"
    /\ UNCHANGED <<request, clock, rendered, resp, ret, pc_search, cleanVars, repairVars, sessVars, verifyVars, learnerVars>>

\* st.session_state.quiz_data = js, then the page renders the questions
Render ==
    /\ outcome = "returned"
    /\ rendered = "pending"
    /\ rendered' = RenderOutcome(js)
    /\ UNCHANGED <<request, clock, final_raw, js, outcome, searchVars, cleanVars, repairVars, sessVars, verifyVars, learnerVars>>

NextGen == RagAnswerChain \/ Render

InitRepair ==
    /\ repair_args \in [topic : {"S3", "EC2"}, difficulty : Difficulties,
                        question_type : QuestionTypes,
                        num_questions : 0..MaxCount, unique_id : {1}]
    /\ repaired = <<>>
    /\ pc_repair = "ready"
    /\ request = [question |-> "", num_questions |-> 0, difficulty |-> "",
                  question_type |-> ""]
    /\ clock = 0
    /\ final_raw = [text |-> <<>>, questions |-> [is_list |-> TRUE, items |-> <<>>]]
    /\ js = [questions_key |-> FALSE, other_keys |-> FALSE, questions |-> <<>>]
    /\ outcome = "idle"
    /\ rendered = "pending"
    /\ resp = [raises |-> FALSE, retrievalResults |-> <<>>]
    /\ docs = <<>>
    /\ ret = [kind |-> "none", entries |-> <<>>]
    /\ pc_search = "off"
    /\ text = <<>>
    /\ valid_count = 0
    /\ cleaned = <<>>
    /\ recleaned = <<>>
    /\ pc_clean = "off"
    /\ sess = [s \in Sessions |-> IdleSession]
    /\ issued = <<>>
    /\ user_answer = <<>>
    /\ correct_answer = <<>>
    /\ verdict = NoVerdict
    /\ verdict_swapped = NoVerdict
    /\ pc_verify = "off"
    /\ quiz = 0
    /\ selected = <<>>
    /\ answer_history = <<>>
    /\ answered_questions = <<>>
    /\ bookmarks = <<>>
    /\ bookmark_data = <<>>

CreateErrorQuestion ==
    /\ pc_repair = "ready"
    /\ repaired' = create_error_question(repair_args.topic, repair_args.difficulty,
                       repair_args.question_type, repair_args.num_questions,
                       repair_args.unique_id)
    /\ pc_repair' = "done"
    /\ UNCHANGED <<repair_args, genVars, searchVars, cleanVars, sessVars, verifyVars, learnerVars>>

NextRepair == CreateErrorQuestion

-----------------------------------------------------------------------------
(* Generation requests of the sessions of one process.  get_shared_context *)
(* is a cache_resource: every session of the process gets the same         *)
(* SharedContext object, so docs is one variable for all of them.          *)

MaxRequests == 1                   \* requests a session issues
MaxRetrievals == 2                 \* searches the drafter makes in one request
MaxClock == 3                      \* milliseconds the clock runs

\* ctx.docs = [] left out of rag_answer_chain
ctx_docs_kept(old) == old

\* ctx = get_shared_context(); ctx.docs = []
ctx_docs_reset(old) == <<>>

\* what the Retriever answers to the searches of a session
SourceOf(s) == IF s = 1 THEN "a.pdf" ELSE "b.pdf"
QueryResults(s) ==
    {<<[source |-> SourceOf(s), score |-> 75]>>,
     <<[source |-> "c.pdf", score |-> 60], [source |-> SourceOf(s), score |-> 75],
       [source |-> SourceOf(s), score |-> 75]>>}

\* the arguments every session passes, and the editor's answers: the same
\* content for every request
SessionRequest ==
    [question |-> "S3", num_questions |-> RequestedQuestions,
     difficulty |-> "Normal", question_type |-> "MultipleChoice"]
SessionOutputs ==
    {[text |-> <<"x">>, questions |-> NoPayload],
     [text |-> <<"{", "Q", "}">>,
      questions |-> [is_list |-> TRUE,
                     items |-> <<[is_object |-> TRUE, question |-> <<"text">>,
                                  options |-> DictOf(Letters), answer |-> "A",
                                  explanation |-> ExplanationDict]>>]]}

InFlight(s) == sess[s].pc = "running"

InitSessions ==
    /\ sess = [s \in Sessions |-> IdleSession]
    /\ issued = <<>>
    /\ docs = <<>>
    /\ clock = 1
    /\ resp = [raises |-> FALSE, retrievalResults |-> <<>>]
    /\ ret = [kind |-> "none", entries |-> <<>>]
    /\ pc_search = "off"
    /\ request = SessionRequest
    /\ final_raw = [text |-> <<>>, questions |-> [is_list |-> TRUE, items |-> <<>>]]
    /\ js = [questions_key |-> FALSE, other_keys |-> FALSE, questions |-> <<>>]
    /\ outcome = "idle"
    /\ rendered = "pending"
    /\ text = <<>>
    /\ valid_count = 0
    /\ cleaned = <<>>
    /\ recleaned = <<>>
    /\ pc_clean = "off"
    /\ repair_args = [topic |-> "", difficulty |-> "", question_type |-> "",
                      num_questions |-> 0, unique_id |-> 0]
    /\ repaired = <<>>
    /\ pc_repair = "off"
    /\ user_answer = <<>>
    /\ correct_answer = <<>>
    /\ verdict = NoVerdict
    /\ verdict_swapped = NoVerdict
    /\ pc_verify = "off"
    /\ quiz = 0
    /\ selected = <<>>
    /\ answer_history = <<>>
    /\ answered_questions = <<>>
    /\ bookmarks = <<>>
    /\ bookmark_data = <<>>

\* rag_answer_chain up to the first agent call: ctx.docs = [] (app.py:276-278)
BeginRequest(s) ==
    /\ sess[s].pc = "idle"
    /\ sess[s].requests < MaxRequests
    /\ docs' = ctx_docs_reset(docs)
    /\ sess' = [t \in Sessions |->
                  IF t = s
                  THEN [pc |-> "running", requests |-> sess[s].requests + 1,
                        started_at |-> clock, retrievals |-> 0, stored |-> <<>>,
                        last_failed |-> FALSE,
                        alone |-> \A u \in Sessions \ {s} : ~InFlight(u),
                        returned |-> FALSE, contexts |-> <<>>]
                  ELSE IF InFlight(t) THEN [sess[t] EXCEPT !.alone = FALSE]
                  ELSE sess[t]]
    /\ UNCHANGED <<issued, clock, request, final_raw, js, outcome, rendered,
                   resp, ret, pc_search, cleanVars, repairVars, verifyVars, learnerVars>>

\* the drafter calls search_knowledge_base and client.retrieve answers
ToolSearch(s) ==
    /\ InFlight(s)
    /\ sess[s].retrievals < MaxRetrievals
    /\ \E rs \in QueryResults(s) :
          LET sorted_docs == MergeAndRank(rs)
          IN /\ docs' = sorted_docs
             /\ sess' = [sess EXCEPT ![s].retrievals = @ + 1,
                                     ![s].stored = sorted_docs,
                                     ![s].last_failed = FALSE]
    /\ UNCHANGED <<issued, clock, request, final_raw, js, outcome, rendered,
                   resp, ret, pc_search, cleanVars, repairVars, verifyVars, learnerVars>>

\* the drafter calls search_knowledge_base and client.retrieve raises
ToolSearchFails(s) ==
    /\ InFlight(s)
    /\ sess[s].retrievals < MaxRetrievals
    /\ sess' = [sess EXCEPT ![s].retrievals = @ + 1, ![s].last_failed = TRUE]
    /\ UNCHANGED <<issued, docs, clock, request, final_raw, js, outcome, rendered,
                   resp, ret, pc_search, cleanVars, repairVars, verifyVars, learnerVars>>

\* the ids of the records of a returned question set
RECURSIVE NumbersOf(_, _)
NumbersOf(qs, i) ==
    IF i > Len(qs) THEN <<>> ELSE <<qs[i].number>> \o NumbersOf(qs, i + 1)

\* rag_answer_chain after the editor has answered (app.py:311-356): the agent
\* calls have taken time, unique_id is the clock in milliseconds, and the
\* documents returned are ctx.docs as it is now
FinishRequest(s) ==
    /\ InFlight(s)
    /\ clock > sess[s].started_at
    /\ \E out \in SessionOutputs :
          LET r == rag_answer_chain(request, out, clock)
          IN issued' = Append(issued, NumbersOf(r.js.questions, 1))
    /\ sess' = [sess EXCEPT ![s].pc = "idle", ![s].returned = TRUE,
                            ![s].contexts = docs]
    /\ UNCHANGED <<docs, clock, request, final_raw, js, outcome, rendered,
                   resp, ret, pc_search, cleanVars, repairVars, verifyVars, learnerVars>>

\* a millisecond passes
Tick ==
    /\ clock < MaxClock
    /\ clock' = clock + 1
    /\ UNCHANGED <<sess, issued, docs, request, final_raw, js, outcome, rendered,
                   resp, ret, pc_search, cleanVars, repairVars, verifyVars, learnerVars>>

NextSessions ==
    \/ \E s \in Sessions : BeginRequest(s)
    \/ \E s \in Sessions : ToolSearch(s)
    \/ \E s \in Sessions : ToolSearchFails(s)
    \/ \E s \in Sessions : FinishRequest(s)
    \/ Tick

-----------------------------------------------------------------------------
(* Short-answer verification: normalize_answer, get_synonyms and           *)
(* check_short_answer.  An answer is a sequence of characters; a Hangul     *)
(* syllable of the source is one character, written in Latin letters:      *)
(* "ram" "da" "ham" "su" are the four syllables of the variants of lambda. *)

MaxUserTokens == 3                 \* tokens of a submitted answer
MaxCorrectTokens == 2              \* tokens of a canonical answer

\* str.lower() on one character
LowerChar(c) ==
    CASE c = "A" -> "a" [] c = "E" -> "e" [] c = "C" -> "c" [] OTHER -> c

\* text.strip(): leading and trailing whitespace removed
RECURSIVE Strip(_)
Strip(t) ==
    IF t = <<>> THEN <<>>
    ELSE IF Head(t) \in Whitespace THEN Strip(Tail(t))
    ELSE IF t[Len(t)] \in Whitespace THEN Strip(SubSeq(t, 1, Len(t) - 1))
    ELSE t

Lower(t) == [i \in 1..Len(t) |-> LowerChar(t[i])]

\* re.sub(r'\s+', '', t): every run of whitespace is deleted
RECURSIVE RemoveWhitespace(_)
RemoveWhitespace(t) ==
    IF t = <<>> THEN <<>>
    ELSE IF Head(t) \in Whitespace THEN RemoveWhitespace(Tail(t))
    ELSE <<Head(t)>> \o RemoveWhitespace(Tail(t))

\* the lowercasing left out
normalize_answer_cased(t) == RemoveWhitespace(Strip(t))

normalize_answer(t) == RemoveWhitespace(Lower(Strip(t)))

\* two entries of synonym_map, in the order of the dict.  No variant of the
\* table occurs in two entries, and of the answers below only those of the
\* lambda entry are variants, so the other entries cannot match such an answer
synonym_map ==
    << [key |-> <<"e", "c", "2">>,
        synonyms |-> << <<"i", "ssi", "tu">>, <<"e", "c", "2">>, <<"i", "ssi", "2">>,
                        <<"il", "la", "seu", "tik">> >>],
       [key |-> <<"l", "a", "m", "b", "d", "a">>,
        synonyms |-> << <<"ram", "da">>, <<"l", "a", "m", "b", "d", "a">>,
                        <<"ram", "da", "ham", "su">>,
                        <<"ram", "da", " ", "ham", "su">> >>] >>

NormalizedSynonyms(k) ==
    [i \in 1..Len(synonym_map[k].synonyms) |->
        normalize_answer(synonym_map[k].synonyms[i])]

Elements(seq) == {seq[i] : i \in 1..Len(seq)}

\* for key, synonyms in synonym_map.items(): the first entry whose normalized
\* variants hold the normalized text gives the list; else [normalized]
get_synonyms(t) ==
    LET normalized == normalize_answer(t)
        hits == {k \in 1..Len(synonym_map) :
                    normalized \in Elements(NormalizedSynonyms(k))}
    IN IF hits = {} THEN <<normalized>>
       ELSE NormalizedSynonyms(CHOOSE k \in hits : \A j \in hits : k <= j)

\* a in b for two strings
IsSubstring(a, b) ==
    \E i \in 0..(Len(b) - Len(a)) : SubSeq(b, i + 1, i + Len(a)) = a

\* the synonym tier left out
SynonymHitNever(user_synonyms, correct_synonyms) == FALSE

\* for us in user_synonyms: if us in correct_synonyms
SynonymHit(user_synonyms, correct_synonyms) ==
    \E i \in 1..Len(user_synonyms) : user_synonyms[i] \in Elements(correct_synonyms)

\* a floor of one character
LongEnoughOne(user_normalized, correct_normalized) ==
    Len(user_normalized) >= 1 /\ Len(correct_normalized) >= 1

\* len(user_normalized) >= 2 and len(correct_normalized) >= 2
LongEnough(user_normalized, correct_normalized) ==
    Len(user_normalized) >= 2 /\ Len(correct_normalized) >= 2

Verdict(c, m) == [is_correct |-> c, match_type |-> m]

\* the partial tier tried before the synonym tier
check_short_answer_partial_first(user, correct) ==
    LET user_normalized == normalize_answer(user)
        correct_normalized == normalize_answer(correct)
    IN IF user_normalized = correct_normalized THEN Verdict(TRUE, "exact")
       ELSE IF /\ (IsSubstring(user_normalized, correct_normalized)
                   \/ IsSubstring(correct_normalized, user_normalized))
               /\ LongEnough(user_normalized, correct_normalized)
               /\ user_normalized # correct_normalized
            THEN Verdict(FALSE, "partial")
       ELSE IF SynonymHit(get_synonyms(user), get_synonyms(correct))
            THEN Verdict(TRUE, "synonym")
       ELSE Verdict(FALSE, "wrong")

\* (is_correct, match_type) of check_short_answer; the message is left out
check_short_answer(user, correct) ==
    LET user_normalized == normalize_answer(user)
        correct_normalized == normalize_answer(correct)
    IN IF user_normalized = correct_normalized THEN Verdict(TRUE, "exact")
       ELSE IF SynonymHit(get_synonyms(user), get_synonyms(correct))
            THEN Verdict(TRUE, "synonym")
       ELSE IF /\ (IsSubstring(user_normalized, correct_normalized)
                   \/ IsSubstring(correct_normalized, user_normalized))
               /\ LongEnough(user_normalized, correct_normalized)
               /\ user_normalized # correct_normalized
            THEN Verdict(FALSE, "partial")
       ELSE Verdict(FALSE, "wrong")

\* the answers: every text of a few tokens
AnswerTokens ==
    { <<" ">>, <<"a">>, <<"A">>, <<"ram", "da">>, <<"ham", "su">> }
Answers(n) == {Flatten(ts) : ts \in SeqsUpTo(AnswerTokens, n)}

InitVerify ==
    /\ user_answer \in Answers(MaxUserTokens)
    /\ correct_answer \in Answers(MaxCorrectTokens)
    /\ verdict = NoVerdict
    /\ verdict_swapped = NoVerdict
    /\ pc_verify = "ready"
    /\ sess = [s \in Sessions |-> IdleSession]
    /\ issued = <<>>
    /\ docs = <<>>
    /\ clock = 0
    /\ resp = [raises |-> FALSE, retrievalResults |-> <<>>]
    /\ ret = [kind |-> "none", entries |-> <<>>]
    /\ pc_search = "off"
    /\ request = [question |-> "", num_questions |-> 0, difficulty |-> "",
                  question_type |-> ""]
    /\ final_raw = [text |-> <<>>, questions |-> [is_list |-> TRUE, items |-> <<>>]]
    /\ js = [questions_key |-> FALSE, other_keys |-> FALSE, questions |-> <<>>]
    /\ outcome = "idle"
    /\ rendered = "pending"
    /\ text = <<>>
    /\ valid_count = 0
    /\ cleaned = <<>>
    /\ recleaned = <<>>
    /\ pc_clean = "off"
    /\ repair_args = [topic |-> "", difficulty |-> "", question_type |-> "",
                      num_questions |-> 0, unique_id |-> 0]
    /\ repaired = <<>>
    /\ pc_repair = "off"
    /\ quiz = 0
    /\ selected = <<>>
    /\ answer_history = <<>>
    /\ answered_questions = <<>>
    /\ bookmarks = <<>>
    /\ bookmark_data = <<>>

\* check_short_answer(user_answer, correct)  (app.py:592)
CheckShortAnswer ==
    /\ pc_verify = "ready"
    /\ verdict' = check_short_answer(user_answer, correct_answer)
    /\ pc_verify' = "checked"
    /\ UNCHANGED <<user_answer, correct_answer, verdict_swapped, cleanVars,
                   searchVars, genVars, repairVars, sessVars, learnerVars>>

\* the same two strings with their roles exchanged
CheckSwapped ==
    /\ pc_verify = "checked"
    /\ verdict_swapped' = check_short_answer(correct_answer, user_answer)
    /\ pc_verify' = "both"
    /\ UNCHANGED <<user_answer, correct_answer, verdict, cleanVars,
                   searchVars, genVars, repairVars, sessVars, learnerVars>>

NextVerify == CheckShortAnswer \/ CheckSwapped

-----------------------------------------------------------------------------
(* The two pipeline variants from the editor's answer to the returned text *)

InitPipelines ==
    /\ text \in Texts
    /\ docs \in {MergeAndRank(rs) : rs \in DrafterRetrievals}
    /\ valid_count = 0
    /\ cleaned = <<>>
    /\ recleaned = <<>>
    /\ pc_clean = "final_response"
    /\ resp = [raises |-> FALSE, retrievalResults |-> <<>>]
    /\ ret = [kind |-> "none", entries |-> <<>>]
    /\ pc_search = "off"
    /\ request = [question |-> "", num_questions |-> 0, difficulty |-> "",
                  question_type |-> ""]
    /\ clock = 0
    /\ final_raw = [text |-> <<>>, questions |-> [is_list |-> TRUE, items |-> <<>>]]
    /\ js = [questions_key |-> FALSE, other_keys |-> FALSE, questions |-> <<>>]
    /\ outcome = "idle"
    /\ rendered = "pending"
    /\ repair_args = [topic |-> "", difficulty |-> "", question_type |-> "",
                      num_questions |-> 0, unique_id |-> 0]
    /\ repaired = <<>>
    /\ pc_repair = "off"
    /\ sess = [s \in Sessions |-> IdleSession]
    /\ issued = <<>>
    /\ user_answer = <<>>
    /\ correct_answer = <<>>
    /\ verdict = NoVerdict
    /\ verdict_swapped = NoVerdict
    /\ pc_verify = "off"
    /\ quiz = 0
    /\ selected = <<>>
    /\ answer_history = <<>>
    /\ answered_questions = <<>>
    /\ bookmarks = <<>>
    /\ bookmark_data = <<>>

\* rag_app.py:217-224: doc_count = len(ctx.docs), headers removed, then
\* clean_hallucinated_references(final_text_str, doc_count)
RagAppAnswer ==
    /\ pc_clean = "final_response"
    /\ valid_count' = Len(docs)
    /\ cleaned' = clean_hallucinated_references(remove_markdown_headers(text), Len(docs))
    /\ pc_clean' = "rag_app"
    /\ UNCHANGED <<text, recleaned, searchVars, genVars, repairVars, sessVars, verifyVars, learnerVars>>

\* app.py:311-313: txt = normalize_references(remove_markdown_headers(...)),
\* and the strings of the question set are read from txt as they are
AppAnswer ==
    /\ pc_clean = "final_response"
    /\ cleaned' = normalize_references(remove_markdown_headers(text))
    /\ pc_clean' = "app"
    /\ UNCHANGED <<text, valid_count, recleaned, searchVars, genVars, repairVars,
                   sessVars, verifyVars, learnerVars>>

NextPipelines == RagAppAnswer \/ AppAnswer

-----------------------------------------------------------------------------
(* The learner's answer history: record_answer, get_wrong_questions, the   *)
(* reset button.  A question id is the sequence of the parts of the string *)
(* "{unique_id}_{idx}" between its underscores: <<unique_id, idx>>.        *)

MaxBatches == 2                    \* batches generated in a session

\* the question texts of a batch; a regenerated batch has the same texts
QuestionTexts == <<"q1", "q2">>

\* hash(question_data["question"]): an integer per text, never 0 for these
Hash(question_text) == CASE question_text = "q1" -> 11 [] question_text = "q2" -> 12

\* the records of batch b as rag_answer_chain numbers them (app.py:327)
QuestionOf(b, i) == [number |-> <<b, i>>, question |-> QuestionTexts[i]]

IsKnown(answered, h) == h \in DOMAIN answered

\* the history left as it is when a known question is answered again
KeepRecords(history, h, is_correct) == history

\* for record in answer_history: if record.get("question_hash") == question_hash:
\*     record["correct"] = is_correct; break
UpdateFirstRecord(history, h, is_correct) ==
    LET hits == {i \in 1..Len(history) : history[i].question_hash = h}
    IN IF hits = {} THEN history
       ELSE LET first == CHOOSE i \in hits : \A j \in hits : i <= j
            IN [history EXCEPT ![first].correct = is_correct]

\* every submission appended as a new record
HistoryAppended(history, answered, qid, question_data, is_correct) ==
    Append(history, [qid |-> qid, question_hash |-> Hash(question_data.question),
                     correct |-> is_correct, question |-> question_data])

\* record_answer(qid, question_data, is_correct): the new answer_history
HistoryAfter(history, answered, qid, question_data, is_correct) ==
    LET question_hash == Hash(question_data.question)
    IN IF IsKnown(answered, question_hash)
       THEN UpdateFirstRecord(history, question_hash, is_correct)
       ELSE Append(history, [qid |-> qid, question_hash |-> question_hash,
                             correct |-> is_correct, question |-> question_data])

\* record_answer(qid, question_data, is_correct): the new answered_questions
AnsweredAfter(answered, question_data, is_correct) ==
    LET question_hash == Hash(question_data.question)
    IN IF IsKnown(answered, question_hash)
       THEN [answered EXCEPT ![question_hash] = is_correct]
       ELSE answered @@ (question_hash :> is_correct)

\* get_wrong_questions(): latest record first, one per hash, the wrong ones
RECURSIVE WrongFrom(_, _, _)
WrongFrom(history, i, seen) ==
    IF i = 0 THEN <<>>
    ELSE LET h == history[i]
         IN IF h.question_hash # 0 /\ h.question_hash \notin seen
            THEN (IF ~h.correct THEN <<h>> ELSE <<>>)
                 \o WrongFrom(history, i - 1, seen \cup {h.question_hash})
            ELSE WrongFrom(history, i - 1, seen)

get_wrong_questions(history) == WrongFrom(history, Len(history), {})

InitHistory ==
    /\ quiz = 0
    /\ selected = <<>>
    /\ answer_history = <<>>
    /\ answered_questions = <<>>
    /\ bookmarks = <<>>
    /\ bookmark_data = <<>>
    /\ text = <<>>
    /\ valid_count = 0
    /\ cleaned = <<>>
    /\ recleaned = <<>>
    /\ pc_clean = "off"
    /\ resp = [raises |-> FALSE, retrievalResults |-> <<>>]
    /\ docs = <<>>
    /\ ret = [kind |-> "none", entries |-> <<>>]
    /\ pc_search = "off"
    /\ request = [question |-> "", num_questions |-> 0, difficulty |-> "",
                  question_type |-> ""]
    /\ clock = 0
    /\ final_raw = [text |-> <<>>, questions |-> [is_list |-> TRUE, items |-> <<>>]]
    /\ js = [questions_key |-> FALSE, other_keys |-> FALSE, questions |-> <<>>]
    /\ outcome = "idle"
    /\ rendered = "pending"
    /\ repair_args = [topic |-> "", difficulty |-> "", question_type |-> "",
                      num_questions |-> 0, unique_id |-> 0]
    /\ repaired = <<>>
    /\ pc_repair = "off"
    /\ sess = [s \in Sessions |-> IdleSession]
    /\ issued = <<>>
    /\ user_answer = <<>>
    /\ correct_answer = <<>>
    /\ verdict = NoVerdict
    /\ verdict_swapped = NoVerdict
    /\ pc_verify = "off"

\* a topic is entered and a batch is generated: quiz_data = js (app.py:845-873)
GenerateQuiz ==
    /\ quiz < MaxBatches
    /\ quiz' = quiz + 1
    /\ UNCHANGED <<selected, answer_history, answered_questions, bookmarks,
                   bookmark_data, cleanVars, searchVars, genVars, repairVars,
                   sessVars, verifyVars>>

\* sel_key = f"selected_{context}_{qid}" (app.py:573); a wrong-answer tab
\* context is "wrong_{idx}"
SelKey(context, idx, qid) == [context |-> context, idx |-> idx, qid |-> qid]

\* render_question(q["number"], q, context="generate"): a question of the
\* batch on the page that holds no answer yet is answered (app.py:577-631)
SubmitGenerated(i, is_correct) ==
    LET sel_key == SelKey("generate", 0, <<quiz, i>>)
    IN /\ quiz > 0
       /\ sel_key \notin DOMAIN selected
       /\ selected' = selected @@ (sel_key :> is_correct)
       /\ answer_history' = HistoryAfter(answer_history, answered_questions,
                                <<quiz, i>>, QuestionOf(quiz, i), is_correct)
       /\ answered_questions' = AnsweredAfter(answered_questions,
                                              QuestionOf(quiz, i), is_correct)
       /\ UNCHANGED <<quiz, bookmarks, bookmark_data, cleanVars, searchVars, genVars,
                      repairVars, sessVars, verifyVars>>

\* render_question(w["qid"], w["question"], context=f"wrong_{idx}"): a
\* question of the wrong-answer tab is answered there (app.py:891-897)
SubmitWrongTab(idx, is_correct) ==
    LET wrong_qs == get_wrong_questions(answer_history)
        sel_key == SelKey("wrong", idx - 1, wrong_qs[idx].qid)
    IN /\ idx \in 1..Len(wrong_qs)
       /\ sel_key \notin DOMAIN selected
       /\ selected' = selected @@ (sel_key :> is_correct)
       /\ answer_history' = HistoryAfter(answer_history, answered_questions,
                                wrong_qs[idx].qid, wrong_qs[idx].question, is_correct)
       /\ answered_questions' = AnsweredAfter(answered_questions,
                                              wrong_qs[idx].question, is_correct)
       /\ UNCHANGED <<quiz, bookmarks, bookmark_data, cleanVars, searchVars, genVars,
                      repairVars, sessVars, verifyVars>>

\* the reset button (app.py:1015-1021)
ResetData ==
    /\ answer_history' = <<>>
    /\ answered_questions' = <<>>
    /\ bookmarks' = <<>>
    /\ bookmark_data' = <<>>
    /\ UNCHANGED <<quiz, selected, cleanVars, searchVars, genVars, repairVars,
                   sessVars, verifyVars>>

NextHistory ==
    \/ GenerateQuiz
    \/ \E i \in 1..Len(QuestionTexts), is_correct \in BOOLEAN :
          SubmitGenerated(i, is_correct)
    \/ \E idx \in 1..Len(QuestionTexts), is_correct \in BOOLEAN :
          SubmitWrongTab(idx, is_correct)
    \/ ResetData

-----------------------------------------------------------------------------
(* Saved questions: toggle_bookmark and the saved-questions tab.  A bookmark *)
(* key is the sequence of the parts of the string f"bookmark_{qid}" between  *)
(* its underscores; an integer id is the one-part sequence <<unique_id>>.    *)

\* bookmark_key = f"bookmark_{qid}"
BookmarkKey(qid) == <<"bookmark">> \o qid

\* qid = int(bookmark_key.split("_")[1])
SavedTabQid(bookmark_key) == <<bookmark_key[2]>>

\* list.remove(x): the first occurrence is dropped
RECURSIVE Remove(_, _)
Remove(list, x) ==
    IF list = <<>> THEN <<>>
    ELSE IF Head(list) = x THEN Tail(list)
    ELSE <<Head(list)>> \o Remove(Tail(list), x)

\* dict.pop(key, None)
Pop(data, key) == [k \in DOMAIN data \ {key} |-> data[k]]

\* toggle_bookmark(qid, question_data): the new bookmarks and bookmark_data
toggle_bookmark(list, data, qid, question_data) ==
    LET bookmark_key == BookmarkKey(qid)
    IN IF \E n \in 1..Len(list) : list[n] = bookmark_key
       THEN [bookmarks |-> Remove(list, bookmark_key),
             bookmark_data |-> Pop(data, bookmark_key)]
       ELSE [bookmarks |-> Append(list, bookmark_key),
             bookmark_data |-> [k \in DOMAIN data \cup {bookmark_key} |->
                                   IF k = bookmark_key THEN question_data ELSE data[k]]]

\* the saved-questions tab renders the entries of bookmark_data in insertion
\* order, which is the order of bookmarks; an entry whose recovered id was
\* rendered already has the widget keys of that earlier entry and stops the page
SavedTabShows(n) ==
    /\ n \in 1..Len(bookmarks)
    /\ \A m \in 1..(n - 1) : SavedTabQid(bookmarks[m]) # SavedTabQid(bookmarks[n])

InitBookmarks ==
    /\ quiz = 0
    /\ selected = <<>>
    /\ answer_history = <<>>
    /\ answered_questions = <<>>
    /\ bookmarks = <<>>
    /\ bookmark_data = <<>>
    /\ text = <<>>
    /\ valid_count = 0
    /\ cleaned = <<>>
    /\ recleaned = <<>>
    /\ pc_clean = "off"
    /\ resp = [raises |-> FALSE, retrievalResults |-> <<>>]
    /\ docs = <<>>
    /\ ret = [kind |-> "none", entries |-> <<>>]
    /\ pc_search = "off"
    /\ request = [question |-> "", num_questions |-> 0, difficulty |-> "",
                  question_type |-> ""]
    /\ clock = 0
    /\ final_raw = [text |-> <<>>, questions |-> [is_list |-> TRUE, items |-> <<>>]]
    /\ js = [questions_key |-> FALSE, other_keys |-> FALSE, questions |-> <<>>]
    /\ outcome = "idle"
    /\ rendered = "pending"
    /\ repair_args = [topic |-> "", difficulty |-> "", question_type |-> "",
                      num_questions |-> 0, unique_id |-> 0]
    /\ repaired = <<>>
    /\ pc_repair = "off"
    /\ sess = [s \in Sessions |-> IdleSession]
    /\ issued = <<>>
    /\ user_answer = <<>>
    /\ correct_answer = <<>>
    /\ verdict = NoVerdict
    /\ verdict_swapped = NoVerdict
    /\ pc_verify = "off"

MaxBookmarks == 3                  \* entries the saved-questions tab can hold

\* the save button of a question of the batch on the page (app.py:692-699)
ToggleGenerated(i) ==
    LET after == toggle_bookmark(bookmarks, bookmark_data, <<quiz, i>>,
                                 QuestionOf(quiz, i))
    IN /\ quiz > 0
       /\ Len(after.bookmarks) <= MaxBookmarks
       /\ bookmarks' = after.bookmarks
       /\ bookmark_data' = after.bookmark_data
       /\ UNCHANGED <<quiz, selected, answer_history, answered_questions, cleanVars,
                      searchVars, genVars, repairVars, sessVars, verifyVars>>

\* the save button of an entry of the saved-questions tab:
\* render_question(qid, q_data, context="bookmark") (app.py:885-887)
ToggleSaved(n) ==
    LET bookmark_key == bookmarks[n]
        after == toggle_bookmark(bookmarks, bookmark_data, SavedTabQid(bookmark_key),
                                 bookmark_data[bookmark_key])
    IN /\ SavedTabShows(n)
       /\ Len(after.bookmarks) <= MaxBookmarks
       /\ bookmarks' = after.bookmarks
       /\ bookmark_data' = after.bookmark_data
       /\ UNCHANGED <<quiz, selected, answer_history, answered_questions, cleanVars,
                      searchVars, genVars, repairVars, sessVars, verifyVars>>

\* an entry of the saved-questions tab that holds no answer yet is answered
\* there: render_question(qid, q_data, context="bookmark") (app.py:885-887)
SubmitSaved(n, is_correct) ==
    LET bookmark_key == bookmarks[n]
        qid == SavedTabQid(bookmark_key)
        sel_key == SelKey("bookmark", 0, qid)
    IN /\ SavedTabShows(n)
       /\ sel_key \notin DOMAIN selected
       /\ selected' = selected @@ (sel_key :> is_correct)
       /\ answer_history' = HistoryAfter(answer_history, answered_questions, qid,
                                         bookmark_data[bookmark_key], is_correct)
       /\ answered_questions' = AnsweredAfter(answered_questions,
                                              bookmark_data[bookmark_key], is_correct)
       /\ UNCHANGED <<quiz, bookmarks, bookmark_data, cleanVars, searchVars, genVars,
                      repairVars, sessVars, verifyVars>>

NextBookmarks ==
    \/ GenerateQuiz
    \/ \E i \in 1..Len(QuestionTexts) : ToggleGenerated(i)
    \/ \E n \in 1..MaxBookmarks : ToggleSaved(n)
    \/ \E n \in 1..MaxBookmarks, is_correct \in BOOLEAN : SubmitSaved(n, is_correct)
    \/ ResetData

-----------------------------------------------------------------------------
(* Specifications *)

SpecClean == InitClean /\ [][NextClean]_vars
SpecSearch == InitSearch /\ [][NextSearch]_vars
SpecGen == InitGen /\ [][NextGen]_vars
SpecRepair == InitRepair /\ [][NextRepair]_vars
SpecSessions == InitSessions /\ [][NextSessions]_vars
SpecVerify == InitVerify /\ [][NextVerify]_vars
SpecPipelines == InitPipelines /\ [][NextPipelines]_vars
SpecHistory == InitHistory /\ [][NextHistory]_vars
SpecBookmarks == InitBookmarks /\ [][NextBookmarks]_vars

-----------------------------------------------------------------------------
(* Properties of the reference integrity filter *)

\* the numbers of the citation markers, of either form, that occur in t
MarkerNumbers(t) ==
    {IntOf(MarkerDigits(t, i)) : i \in {j \in 1..Len(t) : MarkerMatchLen(t, j) > 0}}
    \cup {IntOf(IdMatchDigits(t, i)) : i \in {j \in 1..Len(t) : IdMatchLen(t, j) > 0}}

\* C1: the output of clean(t, n) contains no citation marker, of the [N] or
\* the [ID: N] form, whose number lies outside 1..n.
C1_NoMarkerOutOfRange ==
    pc_clean \in {"cleaned", "recleaned"} =>
        \A k \in MarkerNumbers(cleaned) : k \in 1..valid_count

\* C5: clean is idempotent: clean(clean(t, n), n) = clean(t, n).
C5_CleanIdempotent ==
    pc_clean = "recleaned" => recleaned = cleaned

-----------------------------------------------------------------------------
(* Properties of the search tool *)

SearchReturned == pc_search = "done" /\ ~resp.raises

Results == resp.retrievalResults
KeptIdx == {i \in 1..Len(Results) : Results[i].score >= ThresholdPct}
KeptOf(src) == {i \in KeptIdx : Results[i].source = src}
Least(S) == CHOOSE x \in S : \A y \in S : x <= y
FirstSeenRaw(src) == Least({i \in 1..Len(Results) : Results[i].source = src})
FirstSeenKept(src) == Least(KeptOf(src))

RECURSIVE SumScores(_)
SumScores(S) ==
    IF S = {} THEN 0
    ELSE LET i == CHOOSE x \in S : TRUE
         IN Results[i].score + SumScores(S \ {i})

NonIncreasing ==
    \A i, j \in 1..Len(docs) : i < j => ~RatLess(docs[i].score, docs[j].score)

NumberedByPosition ==
    /\ Len(ret.entries) = Len(docs)
    /\ \A i \in 1..Len(docs) :
          ret.entries[i].id = i /\ ret.entries[i].source = docs[i].source

\* C2 as stated: non-increasing score, equal scores in the order their source
\* was first seen in the retrieval result, numbered by position.
C2_TiesByFirstSeenInRetrieval ==
    SearchReturned =>
        /\ NonIncreasing
        /\ NumberedByPosition
        /\ \A i, j \in 1..Len(docs) :
              (i < j /\ RatEq(docs[i].score, docs[j].score))
                  => FirstSeenRaw(docs[i].source) < FirstSeenRaw(docs[j].source)

\* C2 amended: non-increasing score, equal scores in the order their source
\* was first seen among the fragments that pass the threshold, numbered by
\* position.
C2_TiesByFirstSeenAmongKept ==
    SearchReturned =>
        /\ NonIncreasing
        /\ NumberedByPosition
        /\ \A i, j \in 1..Len(docs) :
              (i < j /\ RatEq(docs[i].score, docs[j].score))
                  => FirstSeenKept(docs[i].source) < FirstSeenKept(docs[j].source)

\* three documents returned, two of them with the same score
C2_Witness ==
    /\ SearchReturned
    /\ Len(docs) = 3
    /\ \E i \in 1..2 : RatEq(docs[i].score, docs[i + 1].score)
    /\ RatLess(docs[3].score, docs[1].score)

\* C3: the score of a merged document is mean * (1 + (n - 1) * 0.25) over its
\* n kept fragments, uncapped; of two documents with the same mean the one
\* with more fragments scores strictly higher (5 at 0.80 outrank 1 at 0.95).
C3_WeightedScore ==
    /\ RatLess(WeightedScore(<<95>>), WeightedScore(<<80, 80, 80, 80, 80>>))
    /\ SearchReturned =>
        /\ \A i \in 1..Len(docs) :
              LET n == Cardinality(KeptOf(docs[i].source))
                  sum == SumScores(KeptOf(docs[i].source))
              IN /\ n > 0
                 /\ docs[i].score.den > 0
                 /\ docs[i].score.num * (4 * n) = sum * (n + 3) * docs[i].score.den
        /\ \A i, j \in 1..Len(docs) :
              LET ni == Cardinality(KeptOf(docs[i].source))
                  nj == Cardinality(KeptOf(docs[j].source))
                  si == SumScores(KeptOf(docs[i].source))
                  sj == SumScores(KeptOf(docs[j].source))
              IN (si * nj = sj * ni /\ ni > nj)
                     => RatLess(docs[j].score, docs[i].score)

\* two documents of equal mean and different fragment counts, one above 1.0
C3_Witness ==
    /\ SearchReturned
    /\ \E i, j \in 1..Len(docs) :
          /\ Cardinality(KeptOf(docs[i].source)) > Cardinality(KeptOf(docs[j].source))
          /\ SumScores(KeptOf(docs[i].source)) * Cardinality(KeptOf(docs[j].source))
               = SumScores(KeptOf(docs[j].source)) * Cardinality(KeptOf(docs[i].source))
    /\ \E i \in 1..Len(docs) : RatLess(RatOfInt(100), docs[i].score)

\* C4: an empty retrieval result, or one whose fragments are all below the
\* threshold, gives an empty document list: the shared context is set to the
\* empty list and the tool returns its no-results answer, not an error.
C4_EmptyIsNoResults ==
    (SearchReturned /\ \A i \in 1..Len(Results) : Results[i].score < ThresholdPct)
        => docs = <<>> /\ ret.kind = "no_results"

\* fragments were retrieved, all of them below the threshold
C4_Witness ==
    /\ SearchReturned
    /\ Len(Results) >= 2
    /\ \A i \in 1..Len(Results) : Results[i].score < ThresholdPct
    /\ docs = <<>>

-----------------------------------------------------------------------------
(* Properties of extraction, repair and normalisation *)

RequestDone == outcome \in {"returned", "raised"}
EditorText == normalize_references(remove_markdown_headers(final_raw.text))
Extracted == extract_json(EditorText)
BraceSpan ==
    IF Find(EditorText, "{") = 0 \/ RFind(EditorText, "}") = 0 THEN <<>>
    ELSE SubSeq(EditorText, Find(EditorText, "{"), RFind(EditorText, "}"))
HasQuestionsList == Extracted.questions_key /\ final_raw.questions.is_list
ParsedPath == outcome = "returned" /\ Extracted.ok /\ Extracted.questions_key

\* C6: extract_json returns null whenever the text has no "{" or no "}",
\* whenever the span from the first "{" to the last "}" does not parse, and
\* whenever the parsed payload has the wrong schema (no questions list).
C6_NullOnEveryFailure ==
    RequestDone =>
        /\ (Find(EditorText, "{") = 0 \/ RFind(EditorText, "}") = 0) => ~Extracted.ok
        /\ ~json_loads(BraceSpan).ok => ~Extracted.ok
        /\ ~HasQuestionsList => ~Extracted.ok

WellFormedRecord(q) ==
    /\ q.answer # "ABSENT"
    /\ q.options.present
    /\ q.explanation.kind = "dict"
    /\ q.explanation.wrong.present

\* C7: for every Generator output the request returns a question set that
\* holds a sequence of well-formed records, and rendering it does not fail.
C7_AlwaysAWellFormedBatch ==
    /\ outcome # "raised"
    /\ rendered # "crash"
    /\ outcome = "returned" =>
          /\ js.questions_key
          /\ \A i \in 1..Len(js.questions) : WellFormedRecord(js.questions[i])

RepairDone == pc_repair = "done"

\* C8: create_error_question returns exactly count records, numbered 1..count,
\* each labelled as a generation error in question text and explanation.correct,
\* with answer ERR_ANSWER and empty options for ShortAnswer, answer "A" and
\* non-empty options for the other types.
C8_RepairShape ==
    RepairDone =>
        /\ Len(repaired) = repair_args.num_questions
        /\ \A i \in 1..Len(repaired) :
              /\ repaired[i].display_number = i
              /\ repaired[i].number = <<repair_args.unique_id, i>>
              /\ repaired[i].question = <<"GENERATION_ERROR", i, repair_args.num_questions>>
              /\ repaired[i].explanation.correct = "JSON_PARSE_ERROR"
              /\ repaired[i].type = repair_args.question_type
              /\ IF repair_args.question_type = "ShortAnswer"
                 THEN repaired[i].answer = "ERR_ANSWER" /\ repaired[i].options = DictOf({})
                 ELSE repaired[i].answer = "A" /\ repaired[i].options.keys # {}

\* three short-answer placeholders were made
C8_Witness ==
    /\ RepairDone
    /\ repair_args.question_type = "ShortAnswer"
    /\ Len(repaired) = 3
    /\ repaired[3].display_number = 3

\* C9: no ShortAnswer record a request returns has an answer among the four
\* choice letters: an extracted letter answer is overwritten with
\* ANSWER_GEN_ERROR, and the placeholder path makes no letter answer.
C9_NoLetterForShortAnswer ==
    (outcome = "returned" /\ request.question_type = "ShortAnswer") =>
        /\ \A i \in 1..Len(js.questions) : js.questions[i].answer \notin Letters
        /\ ParsedPath =>
              /\ Len(js.questions) = Len(final_raw.questions.items)
              /\ \A i \in 1..Len(js.questions) :
                    final_raw.questions.items[i].answer \in Letters
                        => js.questions[i].answer = "ANSWER_GEN_ERROR"

\* the editor answered a short-answer question with the letter "A"
C9_Witness ==
    /\ ParsedPath
    /\ request.question_type = "ShortAnswer"
    /\ Len(js.questions) >= 1
    /\ final_raw.questions.items[1].answer = "A"
    /\ js.questions[1].answer = "ANSWER_GEN_ERROR"

\* C10: every returned record has the options of its type: none (and no
\* explanation.wrong) for ShortAnswer, four for MultipleChoice, two for OX.
C10_TypeAppropriateOptions ==
    outcome = "returned" =>
        \A i \in 1..Len(js.questions) :
            LET q == js.questions[i]
            IN /\ q.options.present
               /\ q.type = "ShortAnswer" =>
                     /\ q.options.keys = {}
                     /\ q.explanation.wrong = DictOf({})
               /\ q.type = "MultipleChoice" => q.options.keys = Letters
               /\ q.type = "OX" => q.options.keys = {"A", "B"}

-----------------------------------------------------------------------------
(* Properties of the generation requests of a process *)

\* C11: no two question records of the requests of a process have the same
\* id: the ids of a batch are distinct, and no id of one batch occurs in
\* another batch, the batch ids of any two requests being different.
C11_IdsNeverCollide ==
    /\ \A b \in 1..Len(issued) :
          \A i, j \in 1..Len(issued[b]) : i # j => issued[b][i] # issued[b][j]
    /\ \A a, b \in 1..Len(issued) :
          a # b => \A i \in 1..Len(issued[a]), j \in 1..Len(issued[b]) :
                       /\ issued[a][i] # issued[b][j]
                       /\ issued[a][i][1] # issued[b][j][1]


-----------------------------------------------------------------------------
(* Properties of the short-answer verification *)

Checked == pc_verify \in {"checked", "both"}

\* lowercase without any whitespace, built from the last character backwards
LowerCase(c) ==
    IF c = "A" THEN "a" ELSE IF c = "E" THEN "e" ELSE IF c = "C" THEN "c" ELSE c

RECURSIVE Canon(_)
Canon(t) ==
    IF Len(t) = 0 THEN <<>>
    ELSE LET front == Canon(SubSeq(t, 1, Len(t) - 1))
         IN IF t[Len(t)] = " " THEN front ELSE Append(front, LowerCase(t[Len(t)]))

\* both strings are variants of one entry of the table
SameEntry(x, y) ==
    \E k \in 1..Len(synonym_map) :
        LET variants == {Canon(synonym_map[k].synonyms[i]) :
                            i \in 1..Len(synonym_map[k].synonyms)}
        IN x \in variants /\ y \in variants

Contains(x, y) == \E i \in 0..(Len(x) - Len(y)) : \A j \in 1..Len(y) : x[i + j] = y[j]

\* the tier rules of the verifier on two normalized strings
TierOf(x, y) ==
    IF x = y THEN "exact"
    ELSE IF SameEntry(x, y) THEN "synonym"
    ELSE IF (Contains(x, y) \/ Contains(y, x)) /\ Len(x) >= 2 /\ Len(y) >= 2
         THEN "partial"
    ELSE "wrong"

\* C12: the tiers are applied in the order exact, synonym, partial, wrong:
\* equal normalized strings give exact and correct; a pair that is not equal
\* and meets the synonym condition gives synonym and correct, also when it
\* meets the condition of the partial tier.
C12_TiersInStrictOrder ==
    Checked =>
        LET x == Canon(user_answer)
            y == Canon(correct_answer)
        IN /\ x = y => verdict = Verdict(TRUE, "exact")
           /\ (x # y /\ SameEntry(x, y)) => verdict = Verdict(TRUE, "synonym")
           /\ verdict.match_type \in {"exact", "synonym", "partial", "wrong"}

\* a synonym pair one of whose strings is part of the other
C12_Witness ==
    /\ Checked
    /\ Canon(user_answer) # Canon(correct_answer)
    /\ SameEntry(Canon(user_answer), Canon(correct_answer))
    /\ Contains(Canon(user_answer), Canon(correct_answer))
    /\ Len(Canon(correct_answer)) >= 2
    /\ verdict = Verdict(TRUE, "synonym")

C14_SynonymSymmetric ==
    /\ pc_verify = "both" => verdict_swapped = verdict
    /\ (Checked /\ Canon(user_answer) # Canon(correct_answer)) =>
          (verdict.match_type = "synonym"
              <=> SameEntry(Canon(user_answer), Canon(correct_answer)))

\* a synonym pair checked in both directions
C14_Witness ==
    /\ pc_verify = "both"
    /\ Len(Canon(user_answer)) < Len(Canon(correct_answer))
    /\ verdict = Verdict(TRUE, "synonym")
    /\ verdict_swapped = Verdict(TRUE, "synonym")

\* strip, every run of inner whitespace collapsed to one blank, lowercase
RECURSIVE CollapsedFront(_)
CollapsedFront(t) ==
    IF Len(t) = 0 THEN <<>>
    ELSE LET front == CollapsedFront(SubSeq(t, 1, Len(t) - 1))
             c == t[Len(t)]
         IN IF c # " " THEN Append(front, LowerCase(c))
            ELSE IF front = <<>> \/ front[Len(front)] = " " THEN front
            ELSE Append(front, " ")

Collapsed(t) ==
    LET front == CollapsedFront(t)
    IN IF front # <<>> /\ front[Len(front)] = " "
       THEN SubSeq(front, 1, Len(front) - 1) ELSE front

SameEntryCollapsed(x, y) ==
    \E k \in 1..Len(synonym_map) :
        LET variants == {Collapsed(synonym_map[k].synonyms[i]) :
                            i \in 1..Len(synonym_map[k].synonyms)}
        IN x \in variants /\ y \in variants

\* C15 as stated: the tier of a pair is the tier the rules give for the two
\* strings stripped, with inner whitespace collapsed, and lowercased.
C15_TierOfCollapsedStrings ==
    Checked =>
        LET x == Collapsed(user_answer)
            y == Collapsed(correct_answer)
        IN verdict.match_type =
              IF x = y THEN "exact"
              ELSE IF SameEntryCollapsed(x, y) THEN "synonym"
              ELSE IF (Contains(x, y) \/ Contains(y, x)) /\ Len(x) >= 2 /\ Len(y) >= 2
                   THEN "partial"
              ELSE "wrong"

\* C15 amended: the tier of a pair is the tier the rules give for the two
\* strings with all whitespace, outer and inner, deleted and lowercased, the
\* same normalization on both sides; exact and synonym are correct.
C15_TierOfStrippedStrings ==
    Checked =>
        /\ verdict.match_type = TierOf(Canon(user_answer), Canon(correct_answer))
        /\ verdict.is_correct = (verdict.match_type \in {"exact", "synonym"})

\* an upper-case submission with inner whitespace equal, once normalized, to
\* a canonical answer written differently
C15_Witness ==
    /\ Checked
    /\ \E i \in 2..(Len(user_answer) - 1) :
          user_answer[i] = " " /\ user_answer[i - 1] # " " /\ user_answer[i + 1] # " "
    /\ \E i \in 1..Len(user_answer) : user_answer[i] = "A"
    /\ \A i \in 1..Len(correct_answer) : correct_answer[i] \notin {" ", "A"}
    /\ verdict = Verdict(TRUE, "exact")

\* C16: when the requests of two sessions interleave, the documents a
\* request returns are those its own retrievals stored (none when it stored
\* none): no other session's request overwrites or clears them.
C16_SessionsIsolated ==
    \A s \in Sessions :
        (sess[s].pc = "idle" /\ sess[s].returned) => sess[s].contexts = sess[s].stored

\* C17: with no other request in flight, a request empties the shared
\* context before any of its retrievals writes to it, and returns exactly
\* what its latest storing retrieval stored, nothing when it stored nothing;
\* the documents of an earlier request are never returned.
C17_ResetThenOwnDocuments ==
    \A s \in Sessions :
        /\ (InFlight(s) /\ sess[s].alone) => docs = sess[s].stored
        /\ (sess[s].pc = "idle" /\ sess[s].returned /\ sess[s].alone)
              => sess[s].contexts = sess[s].stored

\* a request that stored documents, and a later one that searched nothing
\* and returned none
C17_Witness ==
    \E s, t \in Sessions :
        /\ s # t
        /\ sess[s].pc = "idle" /\ sess[s].returned /\ sess[s].alone
        /\ sess[t].pc = "idle" /\ sess[t].returned /\ sess[t].alone
        /\ sess[t].started_at < sess[s].started_at
        /\ Len(sess[t].contexts) = 2
        /\ sess[t].retrievals = 2
        /\ sess[s].retrievals = 0
        /\ sess[s].contexts = <<>>

\* C18: when the Retriever fails during a search of a request that runs
\* alone, the search does not raise, the request completes, and the document
\* list it returns is empty.
C18_FailureGivesNoDocuments ==
    \A s \in Sessions :
        (sess[s].pc = "idle" /\ sess[s].returned /\ sess[s].alone /\ sess[s].last_failed)
            => sess[s].contexts = <<>>

\* C19: a fragment is kept exactly when its score is at least the threshold;
\* the documents are one per source that has a kept fragment, and the text of
\* a document is the kept fragments of its source in retrieval order (the
\* text of a fragment is its position in the retrieval result).
C19_OneDocumentPerKeptSource ==
    SearchReturned =>
        /\ {docs[i].source : i \in 1..Len(docs)} = {Results[i].source : i \in KeptIdx}
        /\ \A i, j \in 1..Len(docs) : i # j => docs[i].source # docs[j].source
        /\ \A i \in 1..Len(docs) :
              LET kept == KeptOf(docs[i].source)
                  txt == docs[i].text
              IN /\ Len(txt) = Cardinality(kept)
                 /\ \A k \in 1..Len(txt) : txt[k] \in kept
                 /\ \A k \in 1..(Len(txt) - 1) : txt[k] < txt[k + 1]

\* a source with a fragment at the threshold, a later kept one and a dropped
\* one, and between them a source whose only fragment is dropped
C19_Witness ==
    /\ SearchReturned
    /\ Len(Results) = 4
    /\ Len(docs) = 1
    /\ docs[1].text = <<1, 3>>
    /\ Results[1].score = ThresholdPct
    /\ Results[2].source # docs[1].source
    /\ Results[4].source = docs[1].source

-----------------------------------------------------------------------------
(* Properties of the pipeline variants *)

\* C20: in both pipeline variants the returned text is the editor's answer
\* passed through the reference integrity filter with valid_count the number
\* of documents returned with it, and it holds no citation marker whose
\* number is greater than that number of documents.
C20_FilteredAgainstReturnedDocuments ==
    pc_clean \in {"rag_app", "app"} =>
        /\ cleaned = clean_hallucinated_references(remove_markdown_headers(text), Len(docs))
        /\ \A k \in MarkerNumbers(cleaned) : k <= Len(docs)

-----------------------------------------------------------------------------
(* Properties of the learner's session state *)

\* C21: once a result is recorded for a question, a later submission for the
\* same question leaves the recorded correctness of that question unchanged.
C21_FirstResultStays ==
    [][\A h \in DOMAIN answered_questions \cap DOMAIN answered_questions' :
          answered_questions'[h] = answered_questions[h]]_vars

\* the hash of the question a selection key belongs to
HashOfKey(k) == Hash(QuestionTexts[k.qid[2]])

\* C21 (amended): a later submission for a recorded question adds no record
\* and changes no record's id or question; it sets the correctness recorded
\* for that question, in its record and in answered_questions, to the later
\* submission's result, and leaves every other question's result as it was.
C21_LaterResultOverwrites ==
    [][\A k \in DOMAIN selected' \ DOMAIN selected :
          HashOfKey(k) \in DOMAIN answered_questions =>
             /\ Len(answer_history') = Len(answer_history)
             /\ answered_questions' =
                   [answered_questions EXCEPT ![HashOfKey(k)] = selected'[k]]
             /\ \A n \in 1..Len(answer_history) :
                   answer_history'[n] =
                      IF answer_history[n].question_hash = HashOfKey(k)
                      THEN [answer_history[n] EXCEPT !.correct = selected'[k]]
                      ELSE answer_history[n]]_vars

\* a question answered wrongly on the batch page and then correctly on the
\* wrong-answer tab: its one record now says correct
C21_Witness ==
    /\ SelKey("generate", 0, <<1, 1>>) \in DOMAIN selected
    /\ SelKey("wrong", 0, <<1, 1>>) \in DOMAIN selected
    /\ ~selected[SelKey("generate", 0, <<1, 1>>)]
    /\ selected[SelKey("wrong", 0, <<1, 1>>)]
    /\ Len(answer_history) = 1
    /\ answer_history[1].correct

\* C22: the history holds at most one record per question text, the keys of
\* answered_questions are the question hashes of the history, and the
\* correctness stored for a key is that of its history record.
C22_HistoryAndIndexAgree ==
    /\ \A i, j \in 1..Len(answer_history) :
          i # j => answer_history[i].question.question # answer_history[j].question.question
    /\ DOMAIN answered_questions =
          {answer_history[i].question_hash : i \in 1..Len(answer_history)}
    /\ \A i \in 1..Len(answer_history) :
          /\ answer_history[i].question_hash = Hash(answer_history[i].question.question)
          /\ answered_questions[answer_history[i].question_hash] = answer_history[i].correct

\* two records; the first question was answered in the first batch, the data
\* was reset, and the question was answered again in the second batch and
\* then once more, correctly, on the wrong-answer tab
C22_Witness ==
    /\ Len(answer_history) = 2
    /\ SelKey("generate", 0, <<1, 1>>) \in DOMAIN selected
    /\ SelKey("wrong", 0, <<2, 1>>) \in DOMAIN selected
    /\ \E i \in 1..2 : answer_history[i].qid = <<2, 1>> /\ answer_history[i].correct
    /\ \E i \in 1..2 : ~answer_history[i].correct

\* C23: for every bookmarked question the id the saved-questions tab recovers
\* from the bookmark key is the id it was bookmarked under, two bookmarked
\* questions never get the same id there, and toggling with the recovered id
\* removes the entry.
C23_SavedTabRecoversId ==
    /\ \A k \in DOMAIN bookmark_data : SavedTabQid(k) = bookmark_data[k].number
    /\ \A k1, k2 \in DOMAIN bookmark_data :
          k1 # k2 => SavedTabQid(k1) # SavedTabQid(k2)
    /\ \A k \in DOMAIN bookmark_data :
          k \notin DOMAIN toggle_bookmark(bookmarks, bookmark_data, SavedTabQid(k),
                                          bookmark_data[k]).bookmark_data


====
